---- MODULE Spec2Model ----
(***************************************************************************)
(* Model of the detection_test program: src/src/main.rs (the three modes   *)
(* record, gen-csv and test) and src/src/audio.rs (CaptureDevice).         *)
(*                                                                         *)
(* Samples of a WAV stream are identified by their position in the stream  *)
(* (the i-th sample the reader yields is the value i), so that a dropped,  *)
(* duplicated or reordered sample is visible in every window.              *)
(***************************************************************************)
EXTENDS Integers, Sequences, FiniteSets, TLC

\* ---------------------------------------------------------------- bounds

\* The window length in samples.  The source uses 8192 (main.rs:101,130);
\* the model is checked with a short window.
WindowSize == 3

\* The longest stream holds MaxWindows full windows and a partial one.
MaxWindows == 22

\* At most MaxPositive windows are classified 1 (or every window so far is),
\* at most MaxFail classifier invocations fail.
MaxPositive == 2

MaxFail == 1

\* The capture buffer length in samples.  The source uses 1024 * 32
\* (audio.rs:49); the model is checked with a short buffer.
BufLen == 4

\* The capture loop is followed for at most MaxReads calls of readi.
MaxReads == 3

\* ------------------------------------------------------ program constants

\* CircularBuffer<20, u8>
HistCap == 20

\* detections.iter().sum::<u8>() > 1
Threshold == 1

\* u8 arithmetic
U8 == 256

\* err.errno() != 11
SkipErrno == 11

StreamBound == MaxWindows * WindowSize + (WindowSize - 1)

\* Channel counts of the WAV header (record_audio writes 2).
Channels == {1, 2}

\* output_label of the classifier (labels in {0,1})
Labels == {0, 1}

\* alsa::pcm::Format values a CaptureDevice may be built with
\* (record_audio passes Format::s32())
Formats == {"S32LE", "S32BE", "S16LE"}

\* errno values of a failed readi: EINTR, EAGAIN, ENODEV, EPIPE
Errnos == {4, 11, 19, 32}

\* the errors snd_pcm_recover handles: EINTR, EPIPE (ESTRPIPE is not drawn)
Recoverable == {4, 32}

\* an overrun or underrun
Overrun == {32}

\* an interrupted system call
Interrupted == {4}

Modes == {"record", "gen_csv", "test"}

VARIABLES
  mode,             \* cli.command
  pc,               \* position of the main thread: "loop" | "done"
  channels,         \* channel count of the input WAV
  drone,            \* TestArgs.drone, the ground truth
  pos,              \* samples the reader has yielded so far
  samples,          \* the Vec `samples`
  windows,          \* the arguments of the process_samples calls, in order
  csv,              \* records written to the CSV file
  detections,       \* the CircularBuffer `detections`
  labels,           \* the labels pushed into `detections`, in order
  run,              \* outcome of the last detection_model.run
  drone_predicted,  \* the last value of `drone_predicted`
  predictions,
  correct,
  acc,              \* the printed accuracy <<correct, predictions>>
  running,          \* the AtomicBool `running`
  sigint,           \* a SIGINT is pending for signals.forever()
  sig_pc,           \* the signal-monitor thread: "wait" | "done"
  cap_pc,           \* the audio thread: "init" | "io" | "create" | "check" | "readi" | "done"
  format,           \* CaptureDevice.format
  pcm,              \* the stages the PCM handle went through
  file,             \* the output WAV: "none" | "open" | "finalized"
  result,           \* what CaptureDevice::read returned
  buf,              \* the array `buf`
  written,          \* the samples given to writer.write_sample, in order
  dev_pos,          \* samples the device has produced so far
  delivered,        \* the samples the successful readi calls returned, in order
  reads,            \* readi calls made
  reads_after_stop, \* readi calls that returned after the stop was stored
  last_err,         \* errno of the last readi, 0 when it succeeded
  last_recover      \* try_recover in the last iteration: "none" | "Ok" | "Err"

recVars == <<running, sigint, sig_pc, cap_pc, format, pcm, file, result, buf,
             written, dev_pos, delivered, reads, reads_after_stop, last_err,
             last_recover>>
winVars == <<pos, samples, windows, csv>>
testVars == <<detections, labels, run, drone_predicted, predictions, correct, acc>>
vars == <<mode, pc, channels, drone, winVars, testVars, recVars>>

\* ------------------------------------------------------------- helpers

RECURSIVE Concat(_)
Concat(ws) == IF ws = <<>> THEN <<>> ELSE Head(ws) \o Concat(Tail(ws))

RECURSIVE CountOf(_, _)
CountOf(s, x) ==
  IF s = <<>> THEN 0
  ELSE (IF Head(s) = x THEN 1 ELSE 0) + CountOf(Tail(s), x)

RECURSIVE SumInt(_)
SumInt(s) == IF s = <<>> THEN 0 ELSE Head(s) + SumInt(Tail(s))

Zeros(n) == [i \in 1..n |-> 0]

LastN(s, n) == IF Len(s) <= n THEN s ELSE SubSeq(s, Len(s) - n + 1, Len(s))

\* ----------------------------------------------------- window accumulation

\* reader.samples::<i32>() yields the next sample
NextSample == pos + 1

\* samples.len() == 8192
WindowFullShort(w) == Len(w) >= WindowSize - 1
WindowFull(w) == Len(w) = WindowSize

\* samples.clear()
ClearKeepLast(w) == <<w[Len(w)]>>
Clear(w) == <<>>

\* the iterator is exhausted at the end of the data chunk, a whole number of
\* frames
StreamEnd == pos % channels = 0

\* ----------------------------------------------------------------- gen_csv

GenCsvSample ==
  /\ mode = "gen_csv" /\ pc = "loop"
  /\ pos < StreamBound
  /\ pos' = pos + 1
  /\ LET w == Append(samples, NextSample) IN
       IF WindowFull(w)
       THEN /\ windows' = Append(windows, w)
            /\ csv' = csv + 1
            /\ samples' = Clear(w)
       ELSE /\ samples' = w
            /\ UNCHANGED <<windows, csv>>
  /\ UNCHANGED <<mode, pc, channels, drone, testVars, recVars>>

GenCsvEnd ==
  /\ mode = "gen_csv" /\ pc = "loop"
  /\ StreamEnd
  /\ pc' = "done"
  /\ UNCHANGED <<mode, channels, drone, winVars, testVars, recVars>>

\* -------------------------------------------------------------------- test

\* CircularBuffer::push_back: a full buffer drops its front element
push_back_lifo(d, x) ==
  IF Len(d) = HistCap THEN Append(SubSeq(d, 1, Len(d) - 1), x) ELSE Append(d, x)
push_back(d, x) ==
  IF Len(d) = HistCap THEN Append(Tail(d), x) ELSE Append(d, x)

\* iter().sum::<u8>()
RECURSIVE SumNarrow(_)
SumNarrow(d) == IF d = <<>> THEN 0 ELSE (Head(d) + SumNarrow(Tail(d))) % 16
RECURSIVE SumU8(_)
SumU8(d) == IF d = <<>> THEN 0 ELSE (Head(d) + SumU8(Tail(d))) % U8

\* detections.iter().sum::<u8>() > 1
AggregateGe(d) == SumU8(d) >= Threshold
Aggregate(d) == SumU8(d) > Threshold

\* CircularBuffer::from([0; 20])
InitDetectionsSeeded == [i \in 1..HistCap |-> IF i = HistCap THEN 1 ELSE 0]
InitDetections == Zeros(HistCap)

\* drone_predicted == drone
MatchesRaw(dp, l) == (l = 1) = drone
Matches(dp, l) == dp = drone

\* `samples` when detection_model.run returns: cleared before the call
SamplesAtRunLate(w, ok) == IF ok THEN <<>> ELSE w
SamplesAtRun(w, ok) == Clear(w)

\* let Ok(ref mut outputs) = run else { continue; }
RunErr(w) ==
  /\ Len(windows) - Len(labels) < MaxFail
  /\ run' = "Err"
  /\ samples' = SamplesAtRun(w, FALSE)
  /\ UNCHANGED <<detections, labels, drone_predicted, predictions, correct, acc>>

\* the rest of the loop body, with pred[0] == l
RunOk(w, l) ==
  /\ l = 1 => (CountOf(labels, 1) < MaxPositive \/ CountOf(labels, 0) = 0)
  /\ run' = "Ok"
  /\ samples' = SamplesAtRun(w, TRUE)
  /\ detections' = push_back(detections, l % U8)
  /\ labels' = Append(labels, l % U8)
  /\ drone_predicted' = Aggregate(detections')
  /\ predictions' = predictions + 1
  /\ correct' = IF Matches(drone_predicted', l) THEN correct + 1 ELSE correct
  /\ UNCHANGED acc

TestSample ==
  /\ mode = "test" /\ pc = "loop"
  /\ pos < StreamBound
  /\ pos' = pos + 1
  /\ LET w == Append(samples, NextSample) IN
       IF WindowFull(w)
       THEN /\ windows' = Append(windows, w)
            /\ \/ RunErr(w)
               \/ \E l \in Labels : RunOk(w, l)
       ELSE /\ samples' = w
            /\ UNCHANGED <<windows, testVars>>
  /\ UNCHANGED <<mode, pc, channels, drone, csv, recVars>>

\* println!("Acc: {}", correct as f32 / predictions as f32)
TestEnd ==
  /\ mode = "test" /\ pc = "loop"
  /\ StreamEnd
  /\ pc' = "done"
  /\ acc' = <<correct, predictions>>
  /\ UNCHANGED <<mode, channels, drone, winVars, recVars>>
  /\ UNCHANGED <<detections, labels, run, drone_predicted, predictions, correct>>

\* ------------------------------------------------------------------ record

offVars == <<winVars, testVars>>

\* the signal handler notes a SIGINT for the iterator
Interrupt ==
  /\ mode = "record"
  /\ ~sigint
  /\ sigint' = TRUE
  /\ UNCHANGED <<mode, pc, channels, drone, offVars>>
  /\ UNCHANGED <<running, sig_pc, cap_pc, format, pcm, file, result, buf, written,
                 dev_pos, delivered, reads, reads_after_stop, last_err, last_recover>>

\* running.store(false, Ordering::Relaxed)
StoredToggle == ~running
Stored == FALSE

\* break: the monitor thread leaves the loop after the first SIGINT
AfterSignalNoBreak == "wait"
AfterSignal == "done"

\* for sig in signals.forever() { running.store(false); break; }
SignalMonitor ==
  /\ mode = "record" /\ sig_pc = "wait"
  /\ sigint
  /\ sigint' = FALSE
  /\ running' = Stored
  /\ sig_pc' = AfterSignal
  /\ UNCHANGED <<mode, pc, channels, drone, offVars>>
  /\ UNCHANGED <<cap_pc, format, pcm, file, result, buf, written, dev_pos,
                 delivered, reads, reads_after_stop, last_err, last_recover>>

\* dropping the PCM closes the handle
ClosedLeak(p) == p
Closed(p) == IF p = <<>> THEN p ELSE Append(p, "closed")

\* dropping the WavWriter finalizes the header
FinalizedNever(f) == f
Finalized(f) == IF f = "open" THEN "finalized" ELSE f

\* an early or final return from CaptureDevice::read: the locals are dropped
Return(r) ==
  /\ cap_pc' = "done"
  /\ result' = r
  /\ pcm' = Closed(pcm)
  /\ file' = Finalized(file)

\* let pcm = self.init_device()?;
InitDevice ==
  /\ mode = "record" /\ cap_pc = "init"
  /\ \/ /\ cap_pc' = "done"                       \* PCM::new fails
        /\ result' = "Err(open)"
        /\ UNCHANGED pcm
     \/ /\ cap_pc' = "done"                       \* a hardware parameter is refused
        /\ result' = "Err(hw_params)"
        /\ pcm' = <<"opened", "closed">>
     \/ /\ cap_pc' = "done"                       \* prepare or start fails
        /\ result' = "Err(start)"
        /\ pcm' = <<"opened", "configured", "closed">>
     \/ /\ cap_pc' = "io"
        /\ pcm' = <<"opened", "configured", "started">>
        /\ UNCHANGED result
  /\ UNCHANGED <<mode, pc, channels, drone, offVars>>
  /\ UNCHANGED <<running, sigint, sig_pc, format, file, buf, written, dev_pos,
                 delivered, reads, reads_after_stop, last_err, last_recover>>

\* Format::S32LE | Format::S32BE
FormatSupported(f) == f \in {"S32LE", "S32BE"}

\* the output file created before the format is matched
SelectIoFileFirst ==
  /\ mode = "record" /\ cap_pc = "io"
  /\ IF FormatSupported(format)
     THEN /\ cap_pc' = "create"
          /\ file' = "open"
          /\ UNCHANGED <<pcm, result>>
     ELSE /\ cap_pc' = "done"
          /\ result' = "Err(Format unimplemented)"
          /\ pcm' = Closed(pcm)
          /\ file' = "finalized"
  /\ UNCHANGED <<mode, pc, channels, drone, offVars>>
  /\ UNCHANGED <<running, sigint, sig_pc, format, buf, written, dev_pos,
                 delivered, reads, reads_after_stop, last_err, last_recover>>

\* let io = match &self.format { ... };
SelectIo ==
  /\ mode = "record" /\ cap_pc = "io"
  /\ IF FormatSupported(format)
     THEN \/ /\ cap_pc' = "create"                \* pcm.io_i32() succeeds
             /\ UNCHANGED <<pcm, file, result>>
          \/ Return("Err(io_i32)")                \* pcm.io_i32()? fails
     ELSE Return("Err(Format unimplemented)")
  /\ UNCHANGED <<mode, pc, channels, drone, offVars>>
  /\ UNCHANGED <<running, sigint, sig_pc, format, buf, written, dev_pos,
                 delivered, reads, reads_after_stop, last_err, last_recover>>

\* let mut buf = [0i32; 1024 * 32]; let mut writer = hound::WavWriter::new(...)
CreateWriter ==
  /\ mode = "record" /\ cap_pc = "create"
  /\ file' = "open"
  /\ cap_pc' = "check"
  /\ UNCHANGED <<mode, pc, channels, drone, offVars>>
  /\ UNCHANGED <<running, sigint, sig_pc, format, pcm, result, buf, written,
                 dev_pos, delivered, reads, reads_after_stop, last_err, last_recover>>

\* while running.load(Ordering::Relaxed)
LoopContinuesLate == running \/ reads_after_stop < 2
LoopContinues == running

LoopCheck ==
  /\ mode = "record" /\ cap_pc = "check"
  /\ IF LoopContinues
     THEN /\ reads < MaxReads
          /\ cap_pc' = "readi"
          /\ UNCHANGED <<pcm, file, result>>
     ELSE Return("Ok")
  /\ UNCHANGED <<mode, pc, channels, drone, offVars>>
  /\ UNCHANGED <<running, sigint, sig_pc, format, buf, written, dev_pos,
                 delivered, reads, reads_after_stop, last_err, last_recover>>

\* the samples a readi of s frames puts at the front of buf
Fill(b, s) ==
  [i \in 1..BufLen |-> IF i <= s * channels THEN dev_pos + i ELSE b[i]]

\* for sample in &buf[..n] { writer.write_sample(*sample) }
WriteAllOfBuf(b, n) == b
WriteFront(b, n) == SubSeq(b, 1, n)

\* Ok(s) => { ... }
ReadOk(s) ==
  LET n == s * channels IN
  /\ buf' = Fill(buf, s)
  /\ written' = written \o WriteFront(buf', n)
  /\ delivered' = delivered \o [i \in 1..n |-> dev_pos + i]
  /\ dev_pos' = dev_pos + n
  /\ last_err' = 0
  /\ last_recover' = "none"
  /\ cap_pc' = "check"
  /\ UNCHANGED <<pcm, file, result>>

\* err.errno() != 11
NeedsRecoverNotOverrun(e) == e # SkipErrno /\ e \notin Overrun
NeedsRecoverAlways(e) == TRUE
NeedsRecover(e) == e # SkipErrno

\* snd_pcm_recover: EINTR needs nothing, an overrun is recovered by a
\* prepare that may fail, any other error is handed back
RecoverOutcomes(e) ==
  IF e \notin Recoverable THEN {"Err"}
  ELSE IF e \in Overrun THEN {"Ok", "Err"} ELSE {"Ok"}

\* pcm.try_recover(err, false)?
RecoverIgnored(r) ==
  /\ cap_pc' = "check"
  /\ UNCHANGED <<pcm, file, result>>
Propagate(r) ==
  IF r = "Ok"
  THEN /\ cap_pc' = "check"
       /\ UNCHANGED <<pcm, file, result>>
  ELSE Return("Err(recover)")

\* Err(err) => { ... }; the frames of an overrun are lost in the device
ReadErr(e) ==
  /\ last_err' = e
  /\ dev_pos' = IF e \in Overrun THEN dev_pos + channels ELSE dev_pos
  /\ IF NeedsRecover(e)
     THEN \E r \in RecoverOutcomes(e) :
            /\ last_recover' = r
            /\ Propagate(r)
     ELSE /\ last_recover' = "none"
          /\ cap_pc' = "check"
          /\ UNCHANGED <<pcm, file, result>>
  /\ UNCHANGED <<buf, written, delivered>>

\* match io.readi(&mut buf) { ... }: the blocking read returns
Readi ==
  /\ mode = "record" /\ cap_pc = "readi"
  /\ reads' = reads + 1
  /\ reads_after_stop' = IF running THEN reads_after_stop ELSE reads_after_stop + 1
  /\ \/ \E s \in 0..(BufLen \div channels) : ReadOk(s)
     \/ \E e \in Errnos : ReadErr(e)
  /\ UNCHANGED <<mode, pc, channels, drone, offVars>>
  /\ UNCHANGED <<running, sigint, sig_pc, format>>

\* thread::scope returns when both threads have ended; println!("clean exit")
RecordExit ==
  /\ mode = "record" /\ pc = "scope"
  /\ sig_pc = "done" /\ cap_pc = "done"
  /\ pc' = "done"
  /\ UNCHANGED <<mode, channels, drone, offVars, recVars>>

\* ------------------------------------------------------------ specification

Init ==
  /\ mode \in Modes
  /\ pc = IF mode = "record" THEN "scope" ELSE "loop"
  /\ channels \in Channels
  /\ drone \in (IF mode = "test" THEN BOOLEAN ELSE {FALSE})
  /\ pos = 0
  /\ samples = <<>>
  /\ windows = <<>>
  /\ csv = 0
  /\ detections = InitDetections
  /\ labels = <<>>
  /\ run = "none"
  /\ drone_predicted = FALSE
  /\ predictions = 0
  /\ correct = 0
  /\ acc = <<>>
  /\ running = TRUE
  /\ sigint = FALSE
  /\ sig_pc = IF mode = "record" THEN "wait" ELSE "none"
  /\ cap_pc = IF mode = "record" THEN "init" ELSE "none"
  /\ format \in (IF mode = "record" THEN Formats ELSE {"S32LE"})
  /\ pcm = <<>>
  /\ file = "none"
  /\ result = "none"
  /\ buf = [i \in 1..BufLen |-> 0]
  /\ written = <<>>
  /\ dev_pos = 0
  /\ delivered = <<>>
  /\ reads = 0
  /\ reads_after_stop = 0
  /\ last_err = 0
  /\ last_recover = "none"

NextCsv == GenCsvSample \/ GenCsvEnd
NextTest == TestSample \/ TestEnd
NextRecord ==
  \/ Interrupt \/ SignalMonitor
  \/ InitDevice \/ SelectIo \/ CreateWriter \/ LoopCheck \/ Readi
  \/ RecordExit

Next == NextRecord \/ NextCsv \/ NextTest

Spec == Init /\ [][Next]_vars

\* record alone
InitRecord == Init /\ mode = "record"
SpecRecord == InitRecord /\ [][NextRecord]_vars

\* gen-csv alone
InitCsv == Init /\ mode = "gen_csv"
SpecCsv == InitCsv /\ [][NextCsv]_vars

\* test alone
InitTest == Init /\ mode = "test"
SpecTest == InitTest /\ [][NextTest]_vars

\* the two offline modes
InitOffline == Init /\ mode # "record"
NextOffline == NextCsv \/ NextTest
SpecOffline == InitOffline /\ [][NextOffline]_vars

\* ------------------------------------------------------------------ claims

\* the samples at stream positions a+1 .. a+n
Positions(a, n) == [i \in 1..n |-> a + i]

\* the sum over the last HistCap labels of the pre-seeded zeros followed by log
RollSum(log) == SumInt(LastN(Zeros(HistCap) \o log, HistCap))

\* C1 as stated: at stream end, L frames (pos = L * channels samples) gave
\* floor(L / W) windows of W * channels samples each.
C1_Original ==
  (mode # "record" /\ pc = "done") =>
    /\ Len(windows) = (pos \div channels) \div WindowSize
    /\ \A i \in 1..Len(windows) : Len(windows[i]) = WindowSize * channels

\* C1 amended: the window is counted in interleaved samples.  After N samples
\* (N = L * channels at stream end) exactly floor(N / W) windows have been
\* emitted, each of W samples in arrival order; the N mod W samples left in
\* the buffer are never emitted, and gen_csv has written one record per window.
C1_Windowing ==
  mode # "record" =>
    /\ Len(windows) = pos \div WindowSize
    /\ \A i \in 1..Len(windows) :
         /\ Len(windows[i]) = WindowSize
         /\ \A j \in 1..(Len(windows[i]) - 1) : windows[i][j] < windows[i][j + 1]
    /\ Len(samples) = pos % WindowSize
    /\ mode = "gen_csv" => csv = Len(windows)
    /\ pc = "done" => pos % channels = 0

C1_Witness ==
  /\ mode = "gen_csv" /\ pc = "done" /\ channels = 2
  /\ Len(windows) >= 2 /\ csv = Len(windows)
  /\ samples # <<>>

\* C2: the emitted windows, concatenated in emission order, are the input
\* truncated to the largest multiple of the window length, and the buffer
\* holds exactly the samples after the last emitted window (none right after
\* an emission).
C2_NoLossNoDuplication ==
  mode # "record" =>
    /\ Concat(windows) = Positions(0, WindowSize * (pos \div WindowSize))
    /\ samples = Positions(WindowSize * (pos \div WindowSize), pos % WindowSize)
    /\ (pos % WindowSize = 0) => samples = <<>>

C2_Witness ==
  /\ mode = "test" /\ Len(windows) >= 2
  /\ pos = WindowSize * Len(windows) /\ samples = <<>>

\* C3: after every observed label, drone_predicted is true exactly when the
\* sum of the HistCap labels in the history exceeds Threshold.
C3_StateIsThresholdOfHistory ==
  (mode = "test" /\ Len(labels) > 0) =>
    (drone_predicted <=> SumInt(detections) > Threshold)

C3_Witness ==
  /\ mode = "test" /\ Len(labels) > HistCap
  /\ CountOf(labels, 1) = 2 /\ labels[1] = 1 /\ labels[2] = 1
  /\ ~drone_predicted

\* C4: from the all-zero history, an observation leaves the state false while
\* the rolling sum over the last HistCap labels is at most 1, and the state
\* turns true exactly at the observation that brings the rolling sum to 2.
C4_TransitionAtSecondPositive ==
  [][ labels' # labels =>
        /\ RollSum(labels') <= 1 => ~drone_predicted'
        /\ (~drone_predicted /\ drone_predicted') <=>
             (RollSum(labels) <= 1 /\ RollSum(labels') >= 2) ]_vars

C4_Witness ==
  /\ mode = "test" /\ drone_predicted
  /\ Len(labels) >= 3
  /\ labels[1] = 1 /\ labels[Len(labels)] = 1
  /\ RollSum(SubSeq(labels, 1, Len(labels) - 1)) = 1
  /\ RollSum(labels) = 2

\* C5: the history always holds exactly HistCap entries: the last HistCap of
\* the HistCap zeros followed by the labels observed so far.
C5_HistoryIsFifo ==
  mode = "test" =>
    /\ Len(detections) = HistCap
    /\ detections = LastN(Zeros(HistCap) \o labels, HistCap)

C5_Witness ==
  /\ mode = "test" /\ Len(labels) > HistCap
  /\ labels[1] = 1 /\ SumInt(detections) = 0

\* C6: a failed classifier invocation changes neither the counters nor the
\* history, leaves the buffer empty and the loop running; every window, the
\* one after a failed window included, starts at the sample after the
\* previous window.
C6_FailedRunSkipsWindow ==
  /\ [][ (windows' # windows /\ run' = "Err") =>
           /\ UNCHANGED <<predictions, correct, detections>>
           /\ samples' = <<>>
           /\ pc' = "loop" ]_vars
  /\ [](\A i \in 1..Len(windows) : windows[i][1] = (i - 1) * WindowSize + 1)

C6_Witness ==
  /\ mode = "test" /\ run = "Ok"
  /\ Len(windows) = Len(labels) + 1 /\ Len(labels) >= 1
  /\ windows[Len(windows)] = Positions(pos - WindowSize, WindowSize)

\* the observations whose smoothed state equals the ground truth
Matching(log) ==
  {k \in 1..Len(log) : (RollSum(SubSeq(log, 1, k)) > Threshold) = drone}

\* C7: the counters never decrease, correct <= predictions, predictions
\* counts the windows whose inference succeeded, correct those of them whose
\* smoothed state equals the ground truth, and the accuracy reported at
\* stream end is correct / predictions.
C7_Accuracy ==
  /\ [](mode = "test" =>
         /\ correct <= predictions
         /\ predictions = Len(labels)
         /\ Len(labels) <= Len(windows)
         /\ pc = "done" =>
              /\ correct = Cardinality(Matching(labels))
              /\ acc = <<correct, predictions>>)
  /\ [][predictions' >= predictions /\ correct' >= correct]_vars

C7_Witness ==
  /\ mode = "test" /\ pc = "done" /\ drone
  /\ Len(windows) > predictions
  /\ 0 < correct /\ correct < predictions
  /\ acc = <<correct, predictions>>

\* C8: at most one readi returns after the stop flag is stored; the store
\* changes nothing of the audio thread (a read in progress stays in
\* progress), and the flag check that follows the store ends the loop with
\* the output finalized.
C8_AtMostOneReadAfterStop ==
  /\ [](reads_after_stop <= 1)
  /\ [][ (running /\ ~running') =>
           UNCHANGED <<cap_pc, reads, written, file, result>> ]_vars
  /\ [][ (~running /\ cap_pc = "check" /\ cap_pc' # "check") =>
           (cap_pc' = "done" /\ result' = "Ok" /\ file' = "finalized") ]_vars

C8_Witness ==
  /\ mode = "record" /\ reads_after_stop = 1
  /\ cap_pc = "done" /\ result = "Ok" /\ file = "finalized"

C10_RejectedBeforeOpen ==
  result = "Err(Format unimplemented)" => pcm = <<>>

\* the errors CaptureDevice::read returns
FatalResults ==
  {"Err(open)", "Err(hw_params)", "Err(start)", "Err(io_i32)",
   "Err(Format unimplemented)", "Err(recover)"}

\* the PCM handle is held: opened and not closed
Held(p) == p # <<>> /\ p[Len(p)] # "closed"

\* C11 as stated: once the audio thread has ended with an error, record_audio
\* goes on to join both threads and return by steps of the program alone,
\* with no SIGINT arriving: while it has not returned, a step of the monitor
\* thread or the return from thread::scope is possible.
C11_ExitsWithoutSignal ==
  (mode = "record" /\ cap_pc = "done" /\ result \in FatalResults /\ pc # "done") =>
    ENABLED (SignalMonitor \/ RecordExit)

\* C12: once the output file has been opened, every way out of the capture
\* loop finalizes it: read never ends with the file open and not finalized.
C12_FinalizedOnEveryExit ==
  /\ [](cap_pc = "done" => file \in {"none", "finalized"})
  /\ [][ (file = "open" /\ cap_pc' = "done") => file' = "finalized" ]_vars

C12_Witness ==
  /\ mode = "record" /\ cap_pc = "done"
  /\ result = "Err(recover)" /\ file = "finalized"

\* C13 as stated: an interrupted system call (EINTR) returned by readi does
\* not have try_recover called; no error is returned and the loop goes on.
C13_Original ==
  [][ (cap_pc = "readi" /\ cap_pc' # "readi" /\ last_err' \in Interrupted) =>
        (last_recover' = "none" /\ cap_pc' = "check" /\ result' = "none") ]_vars

\* C13 amended: the error readi returns with errno 11 (EAGAIN) does not have
\* try_recover called, returns no error and the loop goes on to its next
\* iteration; an interrupted system call (EINTR) does have try_recover called,
\* which succeeds, so that no error is returned and the loop goes on as well.
C13_SkippedErrno ==
  [][ (cap_pc = "readi" /\ cap_pc' # "readi") =>
        /\ last_err' = SkipErrno =>
             /\ last_recover' = "none"
             /\ cap_pc' = "check" /\ result' = "none"
             /\ UNCHANGED <<pcm, file, written>>
        /\ last_err' \in Interrupted =>
             /\ last_recover' = "Ok"
             /\ cap_pc' = "check" /\ result' = "none"
             /\ UNCHANGED <<pcm, file, written>> ]_vars

C13_Witness ==
  /\ mode = "record" /\ last_err = SkipErrno /\ last_recover = "none"
  /\ cap_pc = "readi" /\ reads >= 1 /\ result = "none"

\* C14: the flag only goes from running to stopped, only in the step in
\* which the monitor thread ends, and the ended monitor thread stays ended:
\* one write at most, none by the audio thread.
C14_StopFlagOneShot ==
  /\ [][ ~running => ~running' ]_vars
  /\ [][ running' # running => (sig_pc = "wait" /\ sig_pc' = "done") ]_vars
  /\ [][ sig_pc = "done" => (sig_pc' = "done" /\ running' = running) ]_vars

C14_Witness ==
  /\ mode = "record" /\ ~running /\ sig_pc = "done"
  /\ sigint /\ cap_pc = "readi"

\* C15: read never returns with the PCM handle still held.
C15_HandleReleased ==
  /\ [](cap_pc = "done" => ~Held(pcm))
  /\ [][ (Held(pcm) /\ cap_pc' = "done") => pcm' = Append(pcm, "closed") ]_vars

C15_Witness ==
  /\ mode = "record" /\ cap_pc = "done" /\ result = "Ok"
  /\ pcm = <<"opened", "configured", "started", "closed">>

\* C16: the samples written are the samples the successful reads returned, in
\* order (never more of buf than a read filled); a failed read writes nothing
\* and the samples lost in an overrun are never written later.
C16_WrittenIsDelivered ==
  /\ [](/\ written = delivered
        /\ \A i \in 1..(Len(written) - 1) : written[i] < written[i + 1]
        /\ \A i \in 1..Len(written) : written[i] <= dev_pos)
  /\ [][ (cap_pc = "readi" /\ cap_pc' # "readi" /\ last_err' # 0) =>
           written' = written ]_vars

C16_Witness ==
  /\ mode = "record" /\ last_err = 0 /\ reads >= 2
  /\ written # <<>> /\ Len(written) < dev_pos
  /\ written[Len(written)] = dev_pos
  /\ Len(written) < BufLen

\* C17: the sum of the history is between 0 and HistCap, below the range of
\* u8, so the u8 sum is the true sum and the comparison is made on it.
C17_SumInRange ==
  mode = "test" =>
    /\ SumInt(detections) >= 0 /\ SumInt(detections) <= HistCap
    /\ SumU8(detections) = SumInt(detections)
    /\ Aggregate(detections) <=> SumInt(detections) > Threshold

C17_Witness ==
  /\ mode = "test" /\ SumInt(detections) = HistCap
  /\ drone_predicted /\ run = "Ok"

\* C18: a failed init_device or an unsupported format leaves the output file
\* uncreated; the file exists only once the device was opened, configured
\* and started.
C18_FileAfterDevice ==
  /\ result \in {"Err(open)", "Err(hw_params)", "Err(start)",
                 "Err(Format unimplemented)"} => file = "none"
  /\ file # "none" =>
       (Len(pcm) >= 3 /\ SubSeq(pcm, 1, 3) = <<"opened", "configured", "started">>)

C18_Witness ==
  /\ mode = "record" /\ cap_pc = "done"
  /\ result = "Err(Format unimplemented)" /\ file = "none"

\* C19 as stated: at stream end the denominator of the accuracy is at least 1.
C19_DenominatorPositive ==
  (mode = "test" /\ pc = "done") => predictions >= 1
====
